---- MODULE Spec2Model ----
(***************************************************************************)
(* InMemoryStore (langgraph/store/memory/__init__.py): the batch engine of *)
(* the in-memory key-value store with optional vector search.              *)
(*                                                                         *)
(* Encoding of the Python values:                                          *)
(*   - None is the record None; an Item is a record tagged "Item"; a list  *)
(*     result is a record tagged "list" holding the sequence.              *)
(*   - a Python dict is a sequence of entries in insertion order (dicts    *)
(*     iterate in insertion order; assigning to an existing key keeps its  *)
(*     position; pop removes the entry).                                   *)
(*   - a stored value is a JSON object with the fields "a" and "b", each a *)
(*     list of strings.                                                    *)
(*   - a float score s is held as the exact fraction n/d of s*|s| (the     *)
(*     signed square of the cosine, which orders as the cosine does), or   *)
(*     as NaN.                                                             *)
(*   - created_at / updated_at (wall clock reads) are not modelled.        *)
(***************************************************************************)
EXTENDS Integers, Sequences, FiniteSets, TLC

(***************************************************************************)
(* Bounds of the model.                                                    *)
(***************************************************************************)
MaxOps == 2
MaxBatches == 2
MaxCalls == 4
MaxNamespaces == 3
MaxListCalls == 1
MaxFilterCalls == 1
MaxVectors == 2

(***************************************************************************)
(* Input domains.                                                          *)
(***************************************************************************)
None == [tag |-> "None"]

\* JSON values: None, numbers, strings, lists and dicts (in insertion order).
JNum(n) == [tag |-> "num", n |-> n]
JStr(s) == [tag |-> "str", s |-> s]
List(elems) == [tag |-> "list", elems |-> elems]
JDict(items) == [tag |-> "dict", items |-> items]

NsA == <<"a">>
NsAB == <<"a", "b">>
NsKeys == {<<NsA, "k1">>, <<NsAB, "k1">>, <<NsA, "k2">>}

Tasks == {1, 2}

\* JSON values: the fields "a" and "b" hold lists of strings.
V1 == [a |-> <<"t1">>, b |-> <<>>]
V2 == [a |-> <<"t2", "t3">>, b |-> <<>>]
V3 == [a |-> <<"t3">>, b |-> <<"t3">>]
V4 == [a |-> <<>>, b |-> <<"t0">>]
\* What the embedding capability returns for a text (embed_documents,
\* embed_query and their async forms): a fixed vector per text.
Embed(text) ==
    CASE text = "t0" -> <<0, 0>>
      [] text = "t1" -> <<2, 1>>
      [] text = "t2" -> <<1, 2>>
      [] text = "t3" -> <<-1, 1>>
      [] OTHER -> <<1, 1>>

(***************************************************************************)
(* Operations (langgraph.store.base: GetOp, PutOp, SearchOp,               *)
(* ListNamespacesOp), and an object of another type.                       *)
(***************************************************************************)
GetOp(ns, key) == [type |-> "GetOp", namespace |-> ns, key |-> key]
PutOp(ns, key, value, index) ==
    [type |-> "PutOp", namespace |-> ns, key |-> key, value |-> value, index |-> index]
SearchOp(prefix, filter, query, limit, offset) ==
    [type |-> "SearchOp", namespace_prefix |-> prefix, filter |-> filter,
     query |-> query, limit |-> limit, offset |-> offset]
ListNamespacesOp(conds, depth, limit, offset) ==
    [type |-> "ListNamespacesOp", match_conditions |-> conds, max_depth |-> depth,
     limit |-> limit, offset |-> offset]
MatchCondition(mt, path) == [match_type |-> mt, path |-> path]
UnknownOp == [type |-> "object"]

\* A missing query is "" (None and "" are both falsy in `if op.query`); a missing
\* filter is the empty sequence of (key, filter value) pairs; a missing max_depth
\* is -1.
NoQuery == ""
NoFilter == << >>
NoDepth == -1

\* The operations of the batches of Spec.
GetOps == {GetOp(NsAB, "k1")}
PutOps ==
    {PutOp(NsA, "k1", v, TRUE) : v \in {V1, V2, None}}
    \cup {PutOp(NsAB, "k1", v, TRUE) : v \in {V1, V3, V4, None}}
    \cup {PutOp(NsAB, "k1", V1, FALSE)}
SearchOps ==
    {SearchOp(NsA, NoFilter, "t1", 1, 0),
     SearchOp(NsA, <<<<"a", List(<<JStr("t1")>>)>>>>, NoQuery, 2, 0)}
ListOps == {ListNamespacesOp(<<>>, NoDepth, 10, 0)}
OpSet == GetOps \cup PutOps \cup SearchOps \cup ListOps \cup {UnknownOp}

RECURSIVE SeqsUpTo(_, _)
SeqsUpTo(S, n) ==
    IF n = 0 THEN {<< >>}
    ELSE LET shorter == SeqsUpTo(S, n - 1)
         IN shorter \cup {Append(s, x) : s \in {r \in shorter : Len(r) = n - 1}, x \in S}

Batches == SeqsUpTo(OpSet, MaxOps) \ {<< >>}

\* The operations of SpecRank: store.put(...) and store.search(...) calls, each a
\* batch of one operation.
RankOps ==
    {PutOp(nk[1], nk[2], v, TRUE) : nk \in NsKeys, v \in {V1, V2, V4}}
    \cup {SearchOp(NsA, NoFilter, q, lo[1], lo[2]) :
            q \in {"t1", "t3", "t0"}, lo \in {<<1, 0>>, <<1, 1>>, <<2, 0>>, <<2, 1>>}}

\* _data, inmem_store, embedding_config: the fields of the store (self.embeddings is
\* set exactly when embedding_config is). numpy: whether numpy is installed.
\* calls: the frame of each task's abatch coroutine. nbatches: the calls made.
\* last: what the latest step did, as its caller sees it. written: the value the
\* latest returned batch put at each key (None: deleted or never put).
VARIABLES _data, inmem_store, embedding_config, numpy, calls, nbatches, last, written

vars == <<_data, inmem_store, embedding_config, numpy, calls, nbatches, last, written>>

(***************************************************************************)
(* Python dicts: sequences of entries [k, v] in insertion order.           *)
(***************************************************************************)
DictHas(d, k) == \E i \in 1..Len(d) : d[i].k = k
DictIndex(d, k) == CHOOSE i \in 1..Len(d) : d[i].k = k
\* d.get(k)
DictGet(d, k) == IF DictHas(d, k) THEN d[DictIndex(d, k)].v ELSE None
\* d[k] = v
DictSet(d, k, v) ==
    IF DictHas(d, k) THEN [d EXCEPT ![DictIndex(d, k)].v = v]
    ELSE Append(d, [k |-> k, v |-> v])
\* d.pop(k, None)
DictPop(d, k) ==
    IF DictHas(d, k)
    THEN LET i == DictIndex(d, k) IN SubSeq(d, 1, i - 1) \o SubSeq(d, i + 1, Len(d))
    ELSE d
DictKeys(d) == [i \in 1..Len(d) |-> d[i].k]
DictValues(d) == [i \in 1..Len(d) |-> d[i].v]
\* defaultdict(dict).__getitem__: a missing key is inserted with an empty dict.
Vivify(d, k) == IF DictHas(d, k) THEN d ELSE Append(d, [k |-> k, v |-> << >>])

Item(ns, key, value) == [tag |-> "Item", namespace |-> ns, key |-> key, value |-> value]

\* s[lo : hi] of a Python sequence, 0 <= lo <= hi.
Slice(s, lo, hi) ==
    LET e == IF hi < Len(s) THEN hi ELSE Len(s)
    IN IF lo >= e THEN << >> ELSE SubSeq(s, lo + 1, e)

RECURSIVE Flatten(_)
Flatten(ss) == IF ss = << >> THEN << >> ELSE Head(ss) \o Flatten(Tail(ss))

(***************************************************************************)
(* _does_match: "True", "False" or "ValueError" (raise).                   *)
(***************************************************************************)
\* The loop over zip(key, path) (lines 438-443), or over the reversed sequences
\* (lines 445-450).
RECURSIVE ZipMatch(_, _)
ZipMatch(key, path) ==
    IF key = << >> \/ path = << >> THEN "True"
    ELSE IF Head(path) = "*" THEN ZipMatch(Tail(key), Tail(path))
    ELSE IF Head(key) # Head(path) THEN "False"
    ELSE ZipMatch(Tail(key), Tail(path))

\* reversed(s)
Reverse(s) == [i \in 1..Len(s) |-> s[Len(s) + 1 - i]]

\* Mutant of _does_match: a suffix condition is compared from the start.
_does_match_SuffixFromStart(match_condition, key) ==
    IF Len(key) < Len(match_condition.path) THEN "False"
    ELSE IF match_condition.match_type \in {"prefix", "suffix"}
    THEN ZipMatch(key, match_condition.path)
    ELSE "ValueError"

_does_match(match_condition, key) ==
    LET match_type == match_condition.match_type
        path == match_condition.path
    IN IF Len(key) < Len(path) THEN "False"
       ELSE IF match_type = "prefix" THEN ZipMatch(key, path)
       ELSE IF match_type = "suffix" THEN ZipMatch(Reverse(key), Reverse(path))
       ELSE "ValueError"

\* all(_does_match(condition, ns) for condition in conds): the generator stops at
\* the first False; a raise is reached only when every earlier condition matched.
RECURSIVE AllMatch(_, _)
AllMatch(conds, ns) ==
    IF conds = << >> THEN "True"
    ELSE LET r == _does_match(Head(conds), ns)
         IN IF r = "True" THEN AllMatch(Tail(conds), ns) ELSE r

\* Order of the segment strings (Python compares str by code point).
SegOrd(seg) ==
    CASE seg = "*" -> 0
      [] seg = "a" -> 1
      [] seg = "b" -> 2
      [] seg = "c" -> 3
      [] OTHER -> 4

\* Tuple comparison: lexicographic, a proper prefix is smaller.
RECURSIVE NsLess(_, _)
NsLess(x, y) ==
    IF y = << >> THEN FALSE
    ELSE IF x = << >> THEN TRUE
    ELSE IF SegOrd(Head(x)) # SegOrd(Head(y)) THEN SegOrd(Head(x)) < SegOrd(Head(y))
    ELSE NsLess(Tail(x), Tail(y))

\* sorted(...) of distinct namespaces.
RECURSIVE SortedNs(_)
SortedNs(S) ==
    IF S = {} THEN << >>
    ELSE LET m == CHOOSE x \in S : \A y \in S \ {x} : NsLess(x, y)
         IN <<m>> \o SortedNs(S \ {m})

SeqToSet(s) == {s[i] : i \in 1..Len(s)}

\* Mutant of _handle_list_namespaces: the page is cut before the namespaces are
\* truncated to max_depth.
_handle_list_namespaces_PageFirst(d, op) ==
    LET all_namespaces == DictKeys(d)
        verdicts == [i \in 1..Len(all_namespaces) |->
                        IF op.match_conditions # << >>
                        THEN AllMatch(op.match_conditions, all_namespaces[i])
                        ELSE "True"]
        raised == \E i \in 1..Len(all_namespaces) : verdicts[i] = "ValueError"
        kept == {all_namespaces[i] : i \in {j \in 1..Len(all_namespaces) : verdicts[j] = "True"}}
        page == Slice(SortedNs(kept), op.offset, op.offset + op.limit)
    IN IF raised THEN [err |-> TRUE, value |-> None]
       ELSE [err |-> FALSE,
             value |-> List(IF op.max_depth # NoDepth
                            THEN SortedNs({Slice(ns, 0, op.max_depth) : ns \in SeqToSet(page)})
                            ELSE page)]

(***************************************************************************)
(* _handle_list_namespaces(op) on the document dict d:                     *)
(* [err |-> raised?, value |-> the list].                                  *)
(***************************************************************************)
_handle_list_namespaces(d, op) ==
    LET all_namespaces == DictKeys(d)
        verdicts == [i \in 1..Len(all_namespaces) |->
                        IF op.match_conditions # << >>
                        THEN AllMatch(op.match_conditions, all_namespaces[i])
                        ELSE "True"]
        raised == \E i \in 1..Len(all_namespaces) : verdicts[i] = "ValueError"
        kept == {all_namespaces[i] : i \in {j \in 1..Len(all_namespaces) : verdicts[j] = "True"}}
        namespaces ==
            IF op.max_depth # NoDepth
            THEN SortedNs({Slice(ns, 0, op.max_depth) : ns \in kept})
            ELSE SortedNs(kept)
    IN IF raised THEN [err |-> TRUE, value |-> None]
       ELSE [err |-> FALSE,
             value |-> List(Slice(namespaces, op.offset, op.offset + op.limit))]

(***************************************************************************)
(* _apply_operator and _compare_values: "True", "False" or "Error" (a      *)
(* raise: ValueError of an unsupported operator, or the TypeError /         *)
(* ValueError of float(...) on a value that is not a number).              *)
(***************************************************************************)
Bool(b) == IF b THEN "True" ELSE "False"

OperatorKeys == {"$eq", "$ne", "$gt", "$gte", "$lt", "$lte"}

\* k.startswith("$"), on the keys of the filters of the model.
StartsWithDollar(k) == k \in OperatorKeys \cup {"$foo"}

\* Mutant of _apply_operator: $gte and $lte are strict.
_apply_operator_Strict(value, operator, op_value) ==
    IF operator = "$eq" THEN Bool(value = op_value)
    ELSE IF operator \in {"$gt", "$gte", "$lt", "$lte"}
    THEN IF value.tag # "num" \/ op_value.tag # "num" THEN "Error"
         ELSE IF operator \in {"$gt", "$gte"} THEN Bool(value.n > op_value.n)
         ELSE Bool(value.n < op_value.n)
    ELSE IF operator = "$ne" THEN Bool(value # op_value)
    ELSE "Error"

\* Lines 478-493. float(x) raises on None, on a string that is not a number (the
\* strings of the model), on a list and on a dict.
_apply_operator(value, operator, op_value) ==
    IF operator = "$eq" THEN Bool(value = op_value)
    ELSE IF operator \in {"$gt", "$gte", "$lt", "$lte"}
    THEN IF value.tag # "num" \/ op_value.tag # "num" THEN "Error"
         ELSE IF operator = "$gt" THEN Bool(value.n > op_value.n)
         ELSE IF operator = "$gte" THEN Bool(value.n >= op_value.n)
         ELSE IF operator = "$lt" THEN Bool(value.n < op_value.n)
         ELSE Bool(value.n <= op_value.n)
    ELSE IF operator = "$ne" THEN Bool(value # op_value)
    ELSE "Error"

\* all(_apply_operator(item_value, op_key, op_value) for ... in filter_value.items()):
\* the generator stops at the first False.
RECURSIVE AllOperators(_, _)
AllOperators(item_value, items) ==
    IF items = << >> THEN "True"
    ELSE LET r == _apply_operator(item_value, Head(items).k, Head(items).v)
         IN IF r = "True" THEN AllOperators(item_value, Tail(items)) ELSE r

\* item_value.get(k) of a dict value.
JGet(item_value, k) == DictGet(item_value.items, k)

RECURSIVE _compare_values(_, _)
RECURSIVE AllFields(_, _)
RECURSIVE AllElems(_, _)

\* all(_compare_values(item_value.get(k), v) for k, v in filter_value.items())
AllFields(item_value, items) ==
    IF items = << >> THEN "True"
    ELSE LET r == _compare_values(JGet(item_value, Head(items).k), Head(items).v)
         IN IF r = "True" THEN AllFields(item_value, Tail(items)) ELSE r

\* all(_compare_values(iv, fv) for iv, fv in zip(item_value, filter_value))
AllElems(ivs, fvs) ==
    IF ivs = << >> \/ fvs = << >> THEN "True"
    ELSE LET r == _compare_values(Head(ivs), Head(fvs))
         IN IF r = "True" THEN AllElems(Tail(ivs), Tail(fvs)) ELSE r

\* Lines 455-475.
_compare_values(item_value, filter_value) ==
    IF filter_value.tag = "dict"
    THEN IF \E i \in 1..Len(filter_value.items) : StartsWithDollar(filter_value.items[i].k)
         THEN AllOperators(item_value, filter_value.items)
         ELSE IF item_value.tag # "dict" THEN "False"
         ELSE AllFields(item_value, filter_value.items)
    ELSE IF filter_value.tag = "list"
    THEN IF item_value.tag = "list" /\ Len(item_value.elems) = Len(filter_value.elems)
         THEN AllElems(item_value.elems, filter_value.elems)
         ELSE "False"
    ELSE Bool(item_value = filter_value)

\* item.value.get(key): the value at the key, or None. The fields "a" and "b" of a
\* stored value hold lists of strings; the other fields hold JSON values.
ValueGet(value, key) ==
    IF key \notin DOMAIN value THEN None
    ELSE IF key \in {"a", "b"}
    THEN List([i \in 1..Len(value[key]) |-> JStr(value[key][i])])
    ELSE value[key]

\* all(_compare_values(item.value.get(key), filter_value) for ... in op.filter.items())
RECURSIVE AllFilter(_, _)
AllFilter(value, pairs) ==
    IF pairs = << >> THEN "True"
    ELSE LET r == _compare_values(ValueGet(value, Head(pairs)[1]), Head(pairs)[2])
         IN IF r = "True" THEN AllFilter(value, Tail(pairs)) ELSE r

\* filter_func of _filter_items: lines 162-169.
filter_func(op, item) ==
    IF op.filter = NoFilter THEN "True" ELSE AllFilter(item.value, op.filter)

(***************************************************************************)
(* _filter_items(op): [err |-> filter_func raised, value |-> the           *)
(* candidates [item, vectors], in dict order].                             *)
(* vecs is the vector index: vecs[<<ns, key>>] is the dict path -> vector  *)
(* (an auto-created empty container reads as a missing one: both are       *)
(* falsy in `embeddings := self.inmem_store[namespace].get(key)`).         *)
(***************************************************************************)
NsHasPrefix(namespace, namespace_prefix) ==
    /\ Len(namespace) >= Len(namespace_prefix)
    /\ Slice(namespace, 0, Len(namespace_prefix)) = namespace_prefix

ItemCandidates(vecs, op, items) ==
    LET matched == SelectSeq(items, LAMBDA it : filter_func(op, it) = "True")
    IN [i \in 1..Len(matched) |->
          LET it == matched[i]
              embeddings == vecs[<<it.namespace, it.key>>]
          IN IF op.query # NoQuery /\ embeddings # << >>
             THEN [item |-> it, vectors |-> DictValues(embeddings)]
             ELSE [item |-> it, vectors |-> << >>]]

_filter_items(d, vecs, op) ==
    [err |-> \E i \in 1..Len(d) :
                /\ NsHasPrefix(d[i].k, op.namespace_prefix)
                /\ \E j \in 1..Len(d[i].v) : filter_func(op, d[i].v[j].v) = "Error",
     value |-> Flatten([i \in 1..Len(d) |->
                          IF NsHasPrefix(d[i].k, op.namespace_prefix)
                          THEN ItemCandidates(vecs, op, DictValues(d[i].v))
                          ELSE << >>])]

(***************************************************************************)
(* _cosine_similarity(X, Y): [err |-> raised?, scores |-> list].           *)
(* np is _check_numpy(): whether numpy is installed.                       *)
(***************************************************************************)
NaN == [nan |-> TRUE]
Frac(n, d) == [n |-> n, d |-> d]
Zero == Frac(0, 1)

\* sum(a * b for a, b in zip(x, y))
RECURSIVE Dot(_, _)
Dot(x, y) ==
    IF x = << >> \/ y = << >> THEN 0 ELSE Head(x) * Head(y) + Dot(Tail(x), Tail(y))

\* The float dot / (sqrt(n1) * sqrt(n2)), n1 > 0 and n2 > 0, as its signed square.
Cosine(dot, n1, n2) == Frac((IF dot < 0 THEN -1 ELSE 1) * dot * dot, n1 * n2)

\* The scalar loop (lines 418-426).
ScalarSimilarity(X, Y) ==
    [i \in 1..Len(Y) |->
        LET dot_product == Dot(X, Y[i])
            norm1 == Dot(X, X)
            norm2 == Dot(Y[i], Y[i])
        IN IF norm1 > 0 /\ norm2 > 0 THEN Cosine(dot_product, norm1, norm2) ELSE Zero]

\* The numpy branch (lines 405-416). np.linalg.norm(Y_arr, axis=1) raises AxisError
\* on the 1-dimensional array np.array([]); only the rows of Y with a zero norm
\* are masked, so a zero X_norm divides 0 by 0 on the other rows: nan.
NumpySimilarity(X, Y) ==
    [i \in 1..Len(Y) |->
        LET X_norm == Dot(X, X)
            Y_norm == Dot(Y[i], Y[i])
        IN IF Y_norm = 0 THEN Zero
           ELSE IF X_norm = 0 THEN NaN
           ELSE Cosine(Dot(Y[i], X), X_norm, Y_norm)]

_cosine_similarity(np, X, Y) ==
    IF np
    THEN IF Y = << >> THEN [err |-> TRUE, scores |-> << >>]
         ELSE [err |-> FALSE, scores |-> NumpySimilarity(X, Y)]
    ELSE [err |-> FALSE, scores |-> ScalarSimilarity(X, Y)]

\* s1 < s2 on floats: every comparison with nan is False.
ScoreLess(s1, s2) ==
    IF s1 = NaN \/ s2 = NaN THEN FALSE ELSE s1.n * s2.d < s2.n * s1.d

\* sorted(pairs, key=lambda x: x[0], reverse=True): stable, descending. A pair goes
\* before the first element with a smaller score (with nan among the keys every
\* comparison made is False and the order is left as it is: _cosine_similarity
\* returns nan only beside nan and 0.0).
RECURSIVE InsertDesc(_, _)
InsertDesc(sorted, x) ==
    IF sorted = << >> THEN <<x>>
    ELSE IF ScoreLess(Head(sorted).score, x.score) THEN <<x>> \o sorted
    ELSE <<Head(sorted)>> \o InsertDesc(Tail(sorted), x)

RECURSIVE SortedDesc(_, _)
SortedDesc(acc, pairs) ==
    IF pairs = << >> THEN acc ELSE SortedDesc(InsertDesc(acc, Head(pairs)), Tail(pairs))

\* The max pooling loop (lines 247-260).
RECURSIVE MaxPool(_, _, _, _)
MaxPool(rest, seen, kept, op) ==
    IF rest = << >> THEN kept
    ELSE LET e == Head(rest)
             key == <<e.item.namespace, e.item.key>>
             ix == Cardinality(seen)
         IN IF key \in seen THEN MaxPool(Tail(rest), seen, kept, op)
            ELSE IF ix >= op.offset + op.limit THEN kept
            ELSE IF ix < op.offset THEN MaxPool(Tail(rest), seen \cup {key}, kept, op)
            ELSE MaxPool(Tail(rest), seen \cup {key}, Append(kept, e), op)

SearchItem(item, score) ==
    [tag |-> "SearchItem", namespace |-> item.namespace, key |-> item.key,
     value |-> item.value, score |-> score]

\* One iteration of the loop of _batch_search: [err, exc, value]. exc is the
\* exception raised: KeyError of queryinmem_store[op.query] (line 236), AxisError
\* of _cosine_similarity (line 242).
SearchOne(np, op, candidates, queryinmem_store) ==
    IF candidates = << >> THEN [err |-> FALSE, exc |-> "", value |-> List(<< >>)]
    ELSE IF op.query # NoQuery
    THEN IF op.query \notin DOMAIN queryinmem_store
         THEN [err |-> TRUE, exc |-> "KeyError", value |-> None]
         ELSE LET query_embedding == queryinmem_store[op.query]
                  flat == Flatten([c \in 1..Len(candidates) |->
                             [v \in 1..Len(candidates[c].vectors) |->
                                 [item |-> candidates[c].item,
                                  vector |-> candidates[c].vectors[v]]]])
                  flat_vectors == [j \in 1..Len(flat) |-> flat[j].vector]
                  cos == _cosine_similarity(np, query_embedding, flat_vectors)
                  pairs == [j \in 1..Len(flat) |->
                              [score |-> cos.scores[j], item |-> flat[j].item]]
                  sorted_results == SortedDesc(<< >>, pairs)
                  kept == MaxPool(sorted_results, {}, << >>, op)
              IN IF cos.err THEN [err |-> TRUE, exc |-> "AxisError", value |-> None]
                 ELSE [err |-> FALSE, exc |-> "",
                       value |-> List([j \in 1..Len(kept) |->
                                         SearchItem(kept[j].item, kept[j].score)])]
    ELSE LET page == Slice(candidates, op.offset, op.offset + op.limit)
         IN [err |-> FALSE, exc |-> "",
             value |-> List([j \in 1..Len(page) |-> SearchItem(page[j].item, None)])]

\* Mutant of _batch_search: a search without candidates is skipped, its slot left
\* as it is.
RECURSIVE _batch_search_SkipsEmpty(_, _, _, _)
_batch_search_SkipsEmpty(np, ops, queryinmem_store, results) ==
    IF ops = << >> THEN [err |-> FALSE, exc |-> "", results |-> results]
    ELSE LET i == Head(ops).k
             r == SearchOne(np, Head(ops).v.op, Head(ops).v.candidates, queryinmem_store)
         IN IF Head(ops).v.candidates = << >>
            THEN _batch_search_SkipsEmpty(np, Tail(ops), queryinmem_store, results)
            ELSE IF r.err THEN [err |-> TRUE, exc |-> r.exc, results |-> results]
            ELSE _batch_search_SkipsEmpty(np, Tail(ops), queryinmem_store,
                                          [results EXCEPT ![i + 1] = r.value])

\* _batch_search(ops, queryinmem_store, results): [err, exc, results].
RECURSIVE _batch_search(_, _, _, _)
_batch_search(np, ops, queryinmem_store, results) ==
    IF ops = << >> THEN [err |-> FALSE, exc |-> "", results |-> results]
    ELSE LET i == Head(ops).k
             r == SearchOne(np, Head(ops).v.op, Head(ops).v.candidates, queryinmem_store)
         IN IF r.err THEN [err |-> TRUE, exc |-> r.exc, results |-> results]
            ELSE _batch_search(np, Tail(ops), queryinmem_store,
                               [results EXCEPT ![i + 1] = r.value])

\* _embed_search_queries / _aembed_search_queries: the queries to embed.
SearchQueries(config, search_ops) ==
    IF config # None /\ search_ops # << >>
    THEN {search_ops[i].v.op.query : i \in 1..Len(search_ops)} \ {NoQuery}
    ELSE {}

\* Mutant of QueryInvocations: one invocation for each Search with a query.
QueryInvocations_PerSearch(config, search_ops) ==
    [q \in SearchQueries(config, search_ops) |->
        Cardinality({i \in 1..Len(search_ops) : search_ops[i].v.op.query = q})]

\* The invocations of embed_query (lines 200-203) / aembed_query (line 218): the
\* number of invocations for each text, one for each query of the set `queries`.
QueryInvocations(config, search_ops) ==
    [q \in SearchQueries(config, search_ops) |-> 1]

NoInvocations == [q \in {} |-> 1]

(***************************************************************************)
(* _prepare_ops(ops) on the document dict d and the vector index vecs:     *)
(* [err, results, put_ops, search_ops, data]. data is the document dict    *)
(* after the loop: self._data[op.namespace] of a Get inserts a missing     *)
(* namespace (defaultdict). put_ops is the dict (namespace, key) -> PutOp; *)
(* search_ops the dict i -> (op, candidates).                              *)
(***************************************************************************)
\* Mutant of PrepareGet: the Get reads a Put of the same batch to its key.
PrepareGet_ReadsPending(acc, op) ==
    LET d1 == Vivify(acc.data, op.namespace)
        nk == <<op.namespace, op.key>>
        item == IF DictHas(acc.put_ops, nk)
                THEN (IF DictGet(acc.put_ops, nk).value = None THEN None
                      ELSE Item(op.namespace, op.key, DictGet(acc.put_ops, nk).value))
                ELSE DictGet(DictGet(d1, op.namespace), op.key)
    IN [acc EXCEPT !.data = d1, !.results = Append(@, item)]

\* Lines 298-300.
PrepareGet(acc, op) ==
    LET d1 == Vivify(acc.data, op.namespace)
        item == DictGet(DictGet(d1, op.namespace), op.key)
    IN [acc EXCEPT !.data = d1, !.results = Append(@, item)]

\* Mutant of PreparePut: the Puts are kept as a list, none replaces an earlier one.
PreparePut_NoCollapse(acc, op) ==
    [acc EXCEPT !.put_ops = Append(@, [k |-> <<op.namespace, op.key>>, v |-> op]),
                !.results = Append(@, None)]

\* Lines 306-308.
PreparePut(acc, op) ==
    [acc EXCEPT !.put_ops = DictSet(@, <<op.namespace, op.key>>, op),
                !.results = Append(@, None)]

PrepareStep(acc, vecs, i, op) ==
    IF op.type = "GetOp" THEN PrepareGet(acc, op)
    ELSE IF op.type = "SearchOp"
    THEN LET c == _filter_items(acc.data, vecs, op)
         IN IF c.err THEN [acc EXCEPT !.err = TRUE]
            ELSE [acc EXCEPT
                    !.search_ops = DictSet(@, i, [op |-> op, candidates |-> c.value]),
                    !.results = Append(@, None)]
    ELSE IF op.type = "ListNamespacesOp"
    THEN LET r == _handle_list_namespaces(acc.data, op)
         IN IF r.err THEN [acc EXCEPT !.err = TRUE]
            ELSE [acc EXCEPT !.results = Append(@, r.value)]
    ELSE IF op.type = "PutOp" THEN PreparePut(acc, op)
    ELSE [acc EXCEPT !.err = TRUE]

RECURSIVE PrepareLoop(_, _, _, _)
PrepareLoop(acc, vecs, ops, i) ==
    IF i >= Len(ops) \/ acc.err THEN acc
    ELSE PrepareLoop(PrepareStep(acc, vecs, i, ops[i + 1]), vecs, ops, i + 1)

_prepare_ops(d, vecs, ops) ==
    PrepareLoop([err |-> FALSE, results |-> << >>, put_ops |-> << >>,
                 search_ops |-> << >>, data |-> d], vecs, ops, 0)

(***************************************************************************)
(* _extract_texts(put_ops): the dict text -> list of (namespace, key,      *)
(* path) destinations.                                                     *)
(***************************************************************************)
\* get_text_at_path(value, field): the text fragments the field specifier yields.
get_text_at_path(value, field) == IF field \in DOMAIN value THEN value[field] ELSE << >>

\* embedding_config["__tokenized_fields"] of the configured store.
TokenizedFields == <<"a", "b">>

\* The (text, destination) pairs of one PutOp and one field, in order.
FieldTexts(op, path) ==
    LET texts == get_text_at_path(op.value, path)
    IN IF Len(texts) > 1
       THEN [i \in 1..Len(texts) |->
               [text |-> texts[i],
                dest |-> <<op.namespace, op.key, path \o "." \o ToString(i - 1)>>]]
       ELSE IF Len(texts) = 1
       THEN <<[text |-> texts[1], dest |-> <<op.namespace, op.key, path>>]>>
       ELSE << >>

OpTexts(config, op) ==
    IF op.value # None /\ op.index # FALSE
    THEN Flatten([f \in 1..Len(config.tokenized_fields) |->
                     FieldTexts(op, config.tokenized_fields[f])])
    ELSE << >>

\* to_embed[text].append(dest) on a defaultdict(list)
RECURSIVE CollectTexts(_, _)
CollectTexts(to_embed, pairs) ==
    IF pairs = << >> THEN to_embed
    ELSE LET p == Head(pairs)
         IN CollectTexts(DictSet(to_embed, p.text, Append(IF DictHas(to_embed, p.text)
                                                          THEN DictGet(to_embed, p.text)
                                                          ELSE << >>, p.dest)),
                         Tail(pairs))

_extract_texts(config, put_ops) ==
    IF put_ops # << >> /\ config # None
    THEN CollectTexts(<< >>, Flatten([i \in 1..Len(put_ops) |-> OpTexts(config, put_ops[i].v)]))
    ELSE << >>

(***************************************************************************)
(* _insertinmem_store(to_embed, embeddings): [err, vecs].                  *)
(***************************************************************************)
RECURSIVE InsertLoop(_, _, _)
InsertLoop(vecs, embeddings, indices) ==
    IF embeddings = << >> \/ indices = << >> THEN vecs
    ELSE LET ix == Head(indices)
             nk == <<ix[1], ix[2]>>
         IN InsertLoop([vecs EXCEPT ![nk] = DictSet(@, ix[3], Head(embeddings))],
                       Tail(embeddings), Tail(indices))

\* Mutant of _insertinmem_store: the vectors are inserted before the counts are
\* compared.
_insertinmem_store_ChecksAfter(vecs, to_embed, embeddings) ==
    LET indices == Flatten(DictValues(to_embed))
    IN [err |-> Len(indices) # Len(embeddings),
        vecs |-> InsertLoop(vecs, embeddings, indices)]

_insertinmem_store(vecs, to_embed, embeddings) ==
    LET indices == Flatten(DictValues(to_embed))
    IN IF Len(indices) # Len(embeddings) THEN [err |-> TRUE, vecs |-> vecs]
       ELSE [err |-> FALSE, vecs |-> InsertLoop(vecs, embeddings, indices)]

(***************************************************************************)
(* _apply_put_ops(put_ops): [data, vecs].                                  *)
(***************************************************************************)
\* Mutant of DataPop: the document is not removed.
DataPop_Keeps(d, ns, key) == Vivify(d, ns)

\* self._data[namespace].pop(key, None)
DataPop(d, ns, key) ==
    LET d1 == Vivify(d, ns) IN [d1 EXCEPT ![DictIndex(d1, ns)].v = DictPop(@, key)]
\* self._data[namespace][key] = item
DataSet(d, ns, key, item) ==
    LET d1 == Vivify(d, ns) IN [d1 EXCEPT ![DictIndex(d1, ns)].v = DictSet(@, key, item)]

\* Mutant of ApplyPut: a delete leaves the vectors of the key.
ApplyPut_KeepsVectors(st, op) ==
    IF op.value = None
    THEN [data |-> DataPop(st.data, op.namespace, op.key), vecs |-> st.vecs]
    ELSE [data |-> DataSet(st.data, op.namespace, op.key,
                           Item(op.namespace, op.key, op.value)),
          vecs |-> st.vecs]

\* Lines 316-326.
ApplyPut(st, op) ==
    IF op.value = None
    THEN [data |-> DataPop(st.data, op.namespace, op.key),
          vecs |-> [st.vecs EXCEPT ![<<op.namespace, op.key>>] = << >>]]
    ELSE [data |-> DataSet(st.data, op.namespace, op.key,
                           Item(op.namespace, op.key, op.value)),
          vecs |-> st.vecs]

RECURSIVE ApplyLoop(_, _)
ApplyLoop(st, put_ops) ==
    IF put_ops = << >> THEN st ELSE ApplyLoop(ApplyPut(st, Head(put_ops).v), Tail(put_ops))

_apply_put_ops(d, vecs, put_ops) == ApplyLoop([data |-> d, vecs |-> vecs], put_ops)

(***************************************************************************)
(* The embedding capability. embed_documents(texts) returns one vector per *)
(* text ("ok"), one vector too few ("short"), or raises ("fail").          *)
(***************************************************************************)
DocOutcomes == {"ok", "short", "fail"}
QueryOutcomes == {"ok", "fail"}

embed_documents(texts, outcome) ==
    LET all == [i \in 1..Len(texts) |-> Embed(texts[i])]
    IN IF outcome = "short" THEN SubSeq(all, 1, Len(all) - 1) ELSE all

(***************************************************************************)
(* The stages of batch / abatch.                                           *)
(***************************************************************************)
\* Lines 130-132 (145-147): embed the queries, rank the searches.
\* [err, cause, results]; qout is what the embedding capability does; cause is
\* "query_embed" or the exception of _batch_search.
SearchStage(config, np, search_ops, results, qout) ==
    LET queries == SearchQueries(config, search_ops)
        queryinmem_store == [q \in queries |-> Embed(q)]
        bs == _batch_search(np, search_ops, queryinmem_store, results)
    IN IF queries # {} /\ qout = "fail"
       THEN [err |-> TRUE, cause |-> "query_embed", results |-> results]
       ELSE [err |-> bs.err, cause |-> bs.exc, results |-> bs.results]

\* Lines 135-138 (150-153), to_embed being that of line 134 (149): embed the texts,
\* insert the vectors, apply the puts. [err, cause, data, vecs]: the store as the
\* stage leaves it; dout is what the embedding capability does.
WriteStage(d, vecs, to_embed, put_ops, dout) ==
    LET ins == IF to_embed # << >>
               THEN _insertinmem_store(vecs, to_embed,
                                       embed_documents(DictKeys(to_embed), dout))
               ELSE [err |-> FALSE, vecs |-> vecs]
        app == _apply_put_ops(d, ins.vecs, put_ops)
    IN IF to_embed # << >> /\ dout = "fail"
       THEN [err |-> TRUE, cause |-> "doc_embed", data |-> d, vecs |-> vecs]
       ELSE IF ins.err
       THEN [err |-> TRUE, cause |-> "count", data |-> d, vecs |-> ins.vecs]
       ELSE [err |-> FALSE, cause |-> "", data |-> app.data, vecs |-> app.vecs]

\* What a step of a call did, as its caller sees it: ev is "return", "raise" or
\* "suspend"; pre_* is the store when the call started, w_* the store before this
\* step; dout is what the document embedding call of this step did ("" when it made
\* none); embed_query and embed_documents are the invocations of the embedding
\* capability the call has made.
Event(ev, cause, mode, dout, f, results) ==
    [ev |-> ev, cause |-> cause, mode |-> mode, dout |-> dout, ops |-> f.ops,
     results |-> results, put_ops |-> f.put_ops,
     embed_query |-> f.embed_query, embed_documents |-> f.embed_documents,
     pre_data |-> f.pre_data, pre_vecs |-> f.pre_vecs, pre_written |-> f.pre_written,
     w_data |-> _data, w_vecs |-> inmem_store]
NoEvent == [ev |-> "none"]
Idle == [pc |-> "idle"]

\* The frame of a call: its locals, the store as it was when the call started,
\* and the invocations of the embedding capability it has made: embed_query the
\* number of embed_query / aembed_query invocations for each text (lines 200-203,
\* 218), embed_documents the number of embed_documents / aembed_documents
\* invocations (lines 136, 151).
Frame(pc, ops, p) ==
    [pc |-> pc, ops |-> ops, results |-> p.results, put_ops |-> p.put_ops,
     search_ops |-> p.search_ops, embed_query |-> NoInvocations, embed_documents |-> 0,
     pre_data |-> _data, pre_vecs |-> inmem_store, pre_written |-> written]

\* written after a batch with these puts has returned.
RECURSIVE Record(_, _)
Record(wr, put_ops) ==
    IF put_ops = << >> THEN wr
    ELSE Record([wr EXCEPT ![Head(put_ops).k] = Head(put_ops).v.value], Tail(put_ops))

Init ==
    /\ _data = << >>
    /\ inmem_store = [nk \in NsKeys |-> << >>]
    /\ embedding_config \in {None, [tokenized_fields |-> TokenizedFields]}
    /\ numpy \in BOOLEAN
    /\ calls = [t \in Tasks |-> Idle]
    /\ nbatches = 0
    /\ last = NoEvent
    /\ written = [nk \in NsKeys |-> None]

\* The step ends the call: it returns the results or raises.
Finish(f, err, cause, mode, dout, results, d, vecs) ==
    /\ _data' = d
    /\ inmem_store' = vecs
    /\ last' = Event(IF err THEN "raise" ELSE "return", cause, mode, dout, f,
                     IF err THEN << >> ELSE results)
    /\ written' = IF err THEN written ELSE Record(written, f.put_ops)

(***************************************************************************)
(* batch(ops): lines 126-139, one step.                                    *)
(***************************************************************************)
\* Line 139 (138 raising): the call ends, w being the outcome of lines 135-138.
batch_written(fd, mode, dout, results, w) ==
    Finish(fd, w.err, w.cause, mode, dout, results, w.data, w.vecs)

\* Lines 130-139: s is the outcome of the searches (lines 130-133), to_embed the
\* texts of line 134, fq the frame after the query embedding.
batch_searched(p, fq, s, to_embed) ==
    IF s.err
    THEN Finish(fq, TRUE, s.cause, "sync", "", << >>, p.data, inmem_store)
    ELSE \E dout \in IF to_embed # << >> THEN DocOutcomes ELSE {"ok"} :
           batch_written([fq EXCEPT !.embed_documents = IF to_embed # << >> THEN 1 ELSE 0],
                         "sync", IF to_embed # << >> THEN dout ELSE "", s.results,
                         WriteStage(p.data, inmem_store, to_embed, p.put_ops, dout))

\* Lines 128-139: p is the outcome of _prepare_ops (line 127), f the frame.
batch_prepared(p, f) ==
    IF p.err THEN Finish(f, TRUE, "prepare", "sync", "", << >>, p.data, inmem_store)
    ELSE \E qout \in IF SearchQueries(embedding_config, p.search_ops) # {}
                     THEN QueryOutcomes ELSE {"ok"} :
           batch_searched(p,
                          [f EXCEPT !.embed_query = QueryInvocations(embedding_config,
                                                                     p.search_ops)],
                          SearchStage(embedding_config, numpy, p.search_ops, p.results,
                                      qout),
                          _extract_texts(embedding_config, p.put_ops))

batch_frame(ops, p) == batch_prepared(p, Frame("running", ops, p))

batch(ops) ==
    /\ last = NoEvent
    /\ nbatches' = nbatches + 1
    /\ UNCHANGED <<embedding_config, numpy, calls>>
    /\ batch_frame(ops, _prepare_ops(_data, inmem_store, ops))

(***************************************************************************)
(* abatch(ops): lines 141-154. The coroutine runs to its first await that  *)
(* suspends: asyncio.gather of the query embeddings (when there are        *)
(* queries to embed), then aembed_documents (when there are texts).        *)
(***************************************************************************)
Suspend(t, f, pc, results, d) ==
    /\ calls' = [calls EXCEPT ![t] = [f EXCEPT !.pc = pc, !.results = results]]
    /\ _data' = d
    /\ last' = Event("suspend", "", "async", "", f, << >>)
    /\ UNCHANGED <<inmem_store, written>>

\* Lines 149-154 up to the next suspension, to_embed being the texts of line 149.
AfterTexts(t, f, results, d, to_embed) ==
    IF to_embed # << >>
    THEN Suspend(t, [f EXCEPT !.embed_documents = 1], "await_docs", results, d)
    ELSE /\ calls' = [calls EXCEPT ![t] = Idle]
         /\ batch_written(f, "async", "", results,
                          WriteStage(d, inmem_store, to_embed, f.put_ops, "ok"))

\* Lines 149-154 up to the next suspension, the searches being ranked.
AfterSearch(t, f, results, d) ==
    AfterTexts(t, f, results, d, _extract_texts(embedding_config, f.put_ops))

\* Lines 145-154 when no query is to be embedded: s is the outcome of the searches.
abatch_searched(t, f, s, d) ==
    IF s.err
    THEN /\ calls' = [calls EXCEPT ![t] = Idle]
         /\ Finish(f, TRUE, s.cause, "async", "", << >>, d, inmem_store)
    ELSE AfterSearch(t, f, s.results, d)

\* Lines 143-154: p is the outcome of _prepare_ops (line 142), f the frame.
abatch_prepared(t, p, f) ==
    IF p.err
    THEN /\ calls' = calls
         /\ Finish(f, TRUE, "prepare", "async", "", << >>, p.data, inmem_store)
    ELSE IF SearchQueries(embedding_config, p.search_ops) # {}
    THEN Suspend(t, [f EXCEPT !.embed_query = QueryInvocations(embedding_config,
                                                                p.search_ops)],
                 "await_query", p.results, p.data)
    ELSE abatch_searched(t, f,
                         SearchStage(embedding_config, numpy, p.search_ops, p.results,
                                     "ok"),
                         p.data)

abatch_frame(t, ops, p) == abatch_prepared(t, p, Frame("running", ops, p))

abatch(t, ops) ==
    /\ last = NoEvent
    /\ calls[t] = Idle
    /\ \A u \in Tasks : calls[u] = Idle => t <= u
    /\ nbatches' = nbatches + 1
    /\ UNCHANGED <<embedding_config, numpy>>
    /\ abatch_frame(t, ops, _prepare_ops(_data, inmem_store, ops))

\* The gathered query embeddings arrive, or one of them raises: lines 146-151.
aembed_search_queries_done(t, qout) ==
    /\ last = NoEvent
    /\ calls[t].pc = "await_query"
    /\ UNCHANGED <<embedding_config, numpy, nbatches>>
    /\ abatch_searched(t, calls[t],
                       SearchStage(embedding_config, numpy, calls[t].search_ops,
                                   calls[t].results, qout),
                       _data)

\* aembed_documents returns, or raises: lines 151-154.
aembed_documents_done(t, dout) ==
    /\ last = NoEvent
    /\ calls[t].pc = "await_docs"
    /\ UNCHANGED <<embedding_config, numpy, nbatches>>
    /\ calls' = [calls EXCEPT ![t] = Idle]
    /\ batch_written(calls[t], "async", dout, calls[t].results,
                     WriteStage(_data, inmem_store,
                                _extract_texts(embedding_config, calls[t].put_ops),
                                calls[t].put_ops, dout))

\* The task of a suspended abatch is cancelled: CancelledError is raised at the await.
cancel(t) ==
    /\ last = NoEvent
    /\ calls[t].pc \in {"await_query", "await_docs"}
    /\ UNCHANGED <<embedding_config, numpy, nbatches>>
    /\ calls' = [calls EXCEPT ![t] = Idle]
    /\ Finish(calls[t], TRUE, "cancel", "async", "", << >>, _data, inmem_store)

\* The caller takes the outcome of the step.
Deliver ==
    /\ last # NoEvent
    /\ last' = NoEvent
    /\ UNCHANGED <<_data, inmem_store, embedding_config, numpy, calls, nbatches, written>>

Next ==
    \/ nbatches < MaxBatches /\ \E ops \in Batches : batch(ops)
    \/ nbatches < MaxBatches /\ \E t \in Tasks, ops \in Batches : abatch(t, ops)
    \/ \E t \in Tasks, qout \in QueryOutcomes : aembed_search_queries_done(t, qout)
    \/ \E t \in Tasks, dout \in DocOutcomes : aembed_documents_done(t, dout)
    \/ \E t \in Tasks : cancel(t)
    \/ Deliver

Spec == Init /\ [][Next]_vars

\* Single-operation calls (store.put, store.search), synchronous.
NextRank ==
    \/ nbatches < MaxCalls /\ \E op \in RankOps : batch(<<op>>)
    \/ Deliver

SpecRank == Init /\ [][NextRank]_vars

(***************************************************************************)
(* SpecList: store.list_namespaces(...) calls on stores of several         *)
(* namespaces, each holding a document, in every insertion order.          *)
(***************************************************************************)
ListNamespaceSet ==
    {<<"a">>, <<"b">>, <<"a", "b">>, <<"b", "a">>, <<"a", "b", "c">>}

\* The document dict after a put of V1 at key "k1" of each namespace, in order.
StoreOf(nss) ==
    [i \in 1..Len(nss) |->
        [k |-> nss[i], v |-> <<[k |-> "k1", v |-> Item(nss[i], "k1", V1)]>>]]

ListStores ==
    {StoreOf(nss) : nss \in {q \in SeqsUpTo(ListNamespaceSet, MaxNamespaces) :
                                \A i, j \in 1..Len(q) : i # j => q[i] # q[j]}}

ListConditions ==
    {<< >>,
     <<MatchCondition("prefix", <<"a">>)>>,
     <<MatchCondition("prefix", <<"a", "*">>)>>,
     <<MatchCondition("prefix", <<"*", "b">>)>>,
     <<MatchCondition("suffix", <<"b">>)>>,
     <<MatchCondition("suffix", <<"a", "*">>)>>,
     <<MatchCondition("suffix", <<"*", "b", "c">>)>>,
     <<MatchCondition("prefix", <<"a">>), MatchCondition("suffix", <<"b">>)>>,
     <<MatchCondition("other", <<"a">>)>>,
     <<MatchCondition("other", <<"a", "b", "c">>)>>,
     <<MatchCondition("prefix", <<"b">>), MatchCondition("other", <<"a">>)>>,
     <<MatchCondition("other", <<"a">>), MatchCondition("prefix", <<"b">>)>>}

ListCallOps ==
    {ListNamespacesOp(conds, depth, lo[1], lo[2]) :
        conds \in ListConditions, depth \in {NoDepth, 1, 2},
        lo \in {<<10, 0>>, <<1, 0>>, <<2, 1>>}}

InitList ==
    /\ _data \in ListStores
    /\ inmem_store = [nk \in NsKeys |-> << >>]
    /\ embedding_config = None
    /\ numpy = FALSE
    /\ calls = [t \in Tasks |-> Idle]
    /\ nbatches = 0
    /\ last = NoEvent
    /\ written = [nk \in NsKeys |-> None]

NextList ==
    \/ nbatches < MaxListCalls /\ \E op \in ListCallOps : batch(<<op>>)
    \/ Deliver

SpecList == InitList /\ [][NextList]_vars

(***************************************************************************)
(* SpecFilter: store.search(prefix, filter=...) calls without a query, on  *)
(* stores whose documents hold a number and a nested mapping.              *)
(***************************************************************************)
KV(k, v) == [k |-> k, v |-> v]

\* {"a": ["t1"], "b": [], "age": 30, "p": {"q": 1, "r": "x"}}
D30 ==
    [a |-> <<"t1">>, b |-> << >>, age |-> JNum(30),
     p |-> JDict(<<KV("q", JNum(1)), KV("r", JStr("x"))>>)]
\* {"a": ["t1", "t2"], "b": [], "age": 10, "p": "x"}
D10 == [a |-> <<"t1", "t2">>, b |-> << >>, age |-> JNum(10), p |-> JStr("x")]

FilterValues == {D30, D10, V1}

NsKeySeq == <<<<NsA, "k1">>, <<NsAB, "k1">>, <<NsA, "k2">>>>

\* The document dict after the puts of f[nk] at each nk that has one, in order.
RECURSIVE FilterStoreOf(_, _)
FilterStoreOf(f, nks) ==
    IF nks = << >> THEN << >>
    ELSE LET nk == nks[Len(nks)]
             d == FilterStoreOf(f, SubSeq(nks, 1, Len(nks) - 1))
         IN IF f[nk] = None THEN d
            ELSE DataSet(d, nk[1], nk[2], Item(nk[1], nk[2], f[nk]))

FilterStores == {FilterStoreOf(f, NsKeySeq) : f \in [NsKeys -> FilterValues \cup {None}]}

\* op.filter: the (field, filter value) pairs of the mapping, in order.
FilterSet ==
    {NoFilter,
     <<<<"age", JDict(<<KV("$gte", JNum(18))>>)>>>>,
     <<<<"age", JDict(<<KV("$lt", JNum(18))>>)>>>>,
     <<<<"age", JDict(<<KV("$gt", JNum(10)), KV("$lte", JNum(30))>>)>>>>,
     <<<<"age", JDict(<<KV("$gte", JNum(10)), KV("$lt", JNum(30))>>)>>>>,
     <<<<"age", JDict(<<KV("$eq", JNum(30))>>)>>>>,
     <<<<"age", JDict(<<KV("$ne", JNum(30))>>)>>>>,
     <<<<"p", JDict(<<KV("$eq", JStr("x"))>>)>>>>,
     <<<<"age", JNum(30)>>>>,
     <<<<"age", None>>>>,
     <<<<"p", JDict(<<KV("q", JNum(1))>>)>>>>,
     <<<<"p", JDict(<<KV("q", JNum(1)), KV("r", JStr("y"))>>)>>>>,
     <<<<"p", JDict(<<KV("z", None)>>)>>>>,
     <<<<"p", JDict(<<KV("q", JDict(<<KV("$gte", JNum(1))>>))>>)>>>>,
     <<<<"a", List(<<JStr("t1")>>)>>>>,
     <<<<"a", List(<<JStr("t1"), JStr("t2")>>)>>, <<"age", JDict(<<KV("$lt", JNum(18))>>)>>>>,
     <<<<"a", List(<<JStr("t1")>>)>>, <<"age", JNum(30)>>>>,
     <<<<"age", JDict(<<KV("$foo", JNum(1))>>)>>>>,
     <<<<"age", JDict(<<KV("$lt", JNum(18)), KV("$foo", JNum(1))>>)>>>>,
     <<<<"age", JDict(<<KV("$gte", JNum(18)), KV("x", JNum(1))>>)>>>>,
     <<<<"a", List(<<JStr("t1")>>)>>, <<"age", JDict(<<KV("$foo", JNum(1))>>)>>>>}

FilterCallOps ==
    {SearchOp(prefix, f, NoQuery, 10, 0) :
        prefix \in {<< >>, NsA, NsAB, <<"b">>, <<"*">>}, f \in FilterSet}

InitFilter ==
    /\ _data \in FilterStores
    /\ inmem_store = [nk \in NsKeys |-> << >>]
    /\ embedding_config = None
    /\ numpy = FALSE
    /\ calls = [t \in Tasks |-> Idle]
    /\ nbatches = 0
    /\ last = NoEvent
    /\ written = [nk \in NsKeys |-> None]

NextFilter ==
    \/ nbatches < MaxFilterCalls /\ \E op \in FilterCallOps : batch(<<op>>)
    \/ Deliver

SpecFilter == InitFilter /\ [][NextFilter]_vars

(***************************************************************************)
(* SpecSim: calls of _cosine_similarity(X, Y) on small integer vectors,    *)
(* with and without numpy.                                                 *)
(***************************************************************************)
QueryVectors == {<<x, y>> : x, y \in {-1, 0, 1, 2}}
CandidateVectors == {<<0, 0>>, <<2, 1>>, <<1, 2>>, <<-1, 1>>, <<1, 1>>, <<-2, -1>>}

cosine_similarity(X, Y) ==
    /\ last = NoEvent
    /\ last' = [ev |-> "call", X |-> X, Y |-> Y,
                similarities |-> _cosine_similarity(numpy, X, Y)]
    /\ UNCHANGED <<_data, inmem_store, embedding_config, numpy, calls, nbatches, written>>

NextSim ==
    \/ \E X \in QueryVectors, Y \in SeqsUpTo(CandidateVectors, MaxVectors) :
          cosine_similarity(X, Y)
    \/ Deliver

SpecSim == Init /\ [][NextSim]_vars

(***************************************************************************)
(* SpecGateway: batches, sync and async, of puts with and without          *)
(* indexable text and of searches with two different queries and without a *)
(* query.                                                                  *)
(***************************************************************************)
\* {"a": [], "b": []}: a value without text.
VEmpty == [a |-> << >>, b |-> << >>]

GatewayOps ==
    {PutOp(NsA, "k1", V1, TRUE), PutOp(NsA, "k1", V1, FALSE), PutOp(NsA, "k1", None, TRUE),
     PutOp(NsA, "k1", VEmpty, TRUE), PutOp(NsAB, "k1", V2, TRUE),
     SearchOp(NsA, NoFilter, "t1", 1, 0), SearchOp(NsA, NoFilter, "t2", 1, 0),
     SearchOp(NsA, NoFilter, NoQuery, 1, 0)}

GatewayBatches == SeqsUpTo(GatewayOps, MaxOps) \ {<< >>}

NextGateway ==
    \/ nbatches < MaxBatches /\ \E ops \in GatewayBatches : batch(ops)
    \/ nbatches < MaxBatches /\ \E t \in Tasks, ops \in GatewayBatches : abatch(t, ops)
    \/ \E t \in Tasks, qout \in QueryOutcomes : aembed_search_queries_done(t, qout)
    \/ \E t \in Tasks, dout \in DocOutcomes : aembed_documents_done(t, dout)
    \/ Deliver

SpecGateway == Init /\ [][NextGateway]_vars

(***************************************************************************)
(* Reading the store, for the properties.                                  *)
(***************************************************************************)
\* The document at (ns, key), read without touching the dict.
DocAt(d, ns, key) == IF DictHas(d, ns) THEN DictGet(DictGet(d, ns), key) ELSE None
\* The documents of the store.
Docs(d) == UNION {SeqToSet(DictValues(d[i].v)) : i \in 1..Len(d)}
ItemOrNone(ns, key, value) == IF value = None THEN None ELSE Item(ns, key, value)
Returned == last.ev = "return"
OpIndices == 1..Len(last.ops)
IsOp(i, type) == last.ops[i].type = type
PutsTo(ops, nk) ==
    {i \in 1..Len(ops) : ops[i].type = "PutOp" /\ <<ops[i].namespace, ops[i].key>> = nk}
MaxOf(S) == CHOOSE x \in S : \A y \in S : y <= x

(***************************************************************************)
(* C1. Read-before-write isolation for Get: in every batch that returns,   *)
(* sync or async, the result of each Get(ns, k) is the document (ns, k)    *)
(* held when the batch started (None when it held none), whatever Puts to  *)
(* (ns, k) the batch holds before or after the Get.                        *)
(***************************************************************************)
C1_GetReadsPreBatch ==
    Returned =>
        \A i \in OpIndices :
            IsOp(i, "GetOp") =>
                last.results[i] = DocAt(last.pre_data, last.ops[i].namespace, last.ops[i].key)

\* A returned batch with a Put to (ns, k) before a Get of (ns, k), the key holding
\* another document when the batch started.
C1_Witness ==
    /\ Returned
    /\ \E i, j \in OpIndices :
          /\ j < i
          /\ IsOp(i, "GetOp")
          /\ IsOp(j, "PutOp")
          /\ last.ops[j].namespace = last.ops[i].namespace
          /\ last.ops[j].key = last.ops[i].key
          /\ last.results[i] # None
          /\ last.ops[j].value # last.results[i].value

(***************************************************************************)
(* C2. Every ListNamespaces result and every Search result computed in a   *)
(* batch equals what the same operation returns when it is executed alone  *)
(* against the store as it was when the batch started.                     *)
(***************************************************************************)
SearchAlone(op) ==
    LET candidates == _filter_items(last.pre_data, last.pre_vecs, op).value
        search_ops == <<[k |-> 0, v |-> [op |-> op, candidates |-> candidates]]>>
        queries == SearchQueries(embedding_config, search_ops)
    IN SearchOne(numpy, op, candidates, [q \in queries |-> Embed(q)]).value

C2_ReadsSeeBatchStart ==
    Returned =>
        \A i \in OpIndices :
            /\ IsOp(i, "ListNamespacesOp") =>
                  last.results[i] = _handle_list_namespaces(last.pre_data, last.ops[i]).value
            /\ IsOp(i, "SearchOp") => last.results[i] = SearchAlone(last.ops[i])

(***************************************************************************)
(* C3. Last write wins in a batch: when a returned batch holds several     *)
(* Puts to one (namespace, key), the document and the vector entries of    *)
(* that key are those the last of these Puts alone produces from the store *)
(* the batch wrote to: the document has the last value (none when it is    *)
(* null) and only the last Put's texts are embedded.                       *)
(***************************************************************************)
AloneWrite(op) ==
    LET put_ops == <<[k |-> <<op.namespace, op.key>>, v |-> op]>>
    IN WriteStage(last.w_data, last.w_vecs, _extract_texts(embedding_config, put_ops),
                  put_ops, "ok")

C3_LastWriteWins ==
    Returned =>
        \A nk \in NsKeys :
            Cardinality(PutsTo(last.ops, nk)) >= 2 =>
                LET op == last.ops[MaxOf(PutsTo(last.ops, nk))]
                    alone == AloneWrite(op)
                IN /\ DocAt(_data, nk[1], nk[2]) = ItemOrNone(nk[1], nk[2], op.value)
                   /\ DocAt(_data, nk[1], nk[2]) = DocAt(alone.data, nk[1], nk[2])
                   /\ inmem_store[nk] = alone.vecs[nk]

\* A returned batch with two Puts of different indexed values to one key, on a
\* store with an embedding capability.
C3_Witness ==
    /\ Returned
    /\ embedding_config # None
    /\ \E nk \in NsKeys :
          \E i, j \in PutsTo(last.ops, nk) :
              /\ i < j
              /\ last.ops[i].value \notin {None, last.ops[j].value}
              /\ last.ops[j].value # None
              /\ inmem_store[nk] # << >>

(***************************************************************************)
(* C4. Put / Get / delete round trip across batches: the store holds at    *)
(* each key the value the latest returned batch put there, and no document *)
(* and no vector entry when that was a null value (or nothing was put); a  *)
(* Get of a later batch returns that document; a batch leaves the          *)
(* documents of the keys it does not put as they were, also when it        *)
(* deletes a key that does not exist.                                      *)
(***************************************************************************)
C4_RoundTrip ==
    /\ \A nk \in NsKeys :
          IF written[nk] = None
          THEN DocAt(_data, nk[1], nk[2]) = None /\ inmem_store[nk] = << >>
          ELSE DocAt(_data, nk[1], nk[2]) = Item(nk[1], nk[2], written[nk])
    /\ Returned =>
          /\ \A i \in OpIndices :
                IsOp(i, "GetOp") =>
                    last.results[i] =
                        ItemOrNone(last.ops[i].namespace, last.ops[i].key,
                                   last.pre_written[<<last.ops[i].namespace, last.ops[i].key>>])
          /\ \A nk \in NsKeys :
                ~DictHas(last.put_ops, nk) =>
                    DocAt(_data, nk[1], nk[2]) = DocAt(last.w_data, nk[1], nk[2])

\* A batch that gets the document an earlier batch put, with its vectors, and
\* deletes it; another document is in the store.
C4_Witness ==
    /\ Returned
    /\ \E i, j \in OpIndices :
          /\ IsOp(i, "GetOp")
          /\ IsOp(j, "PutOp")
          /\ last.ops[j].value = None
          /\ <<last.ops[j].namespace, last.ops[j].key>> = <<last.ops[i].namespace, last.ops[i].key>>
          /\ last.results[i] # None
          /\ last.w_vecs[<<last.ops[j].namespace, last.ops[j].key>>] # << >>
          /\ DocAt(_data, last.ops[j].namespace, last.ops[j].key) = None
    /\ Docs(_data) # {}

(***************************************************************************)
(* C5. A batch of N operations that returns gives N results, result i for  *)
(* operation i: a document of the key or None for a Get, None for a Put, a *)
(* list of at most limit search results under the namespace prefix for a   *)
(* Search (a list also when there is no candidate), a list of at most      *)
(* limit namespaces for a ListNamespaces.                                  *)
(***************************************************************************)
C5_ResultShapes ==
    Returned =>
        /\ Len(last.results) = Len(last.ops)
        /\ \A i \in OpIndices :
              LET op == last.ops[i]
                  r == last.results[i]
              IN /\ IsOp(i, "GetOp") =>
                        \/ r = None
                        \/ r.tag = "Item" /\ r.namespace = op.namespace /\ r.key = op.key
                 /\ IsOp(i, "PutOp") => r = None
                 /\ IsOp(i, "SearchOp") =>
                        /\ r.tag = "list"
                        /\ Len(r.elems) <= op.limit
                        /\ \A j \in 1..Len(r.elems) :
                              /\ r.elems[j].tag = "SearchItem"
                              /\ NsHasPrefix(r.elems[j].namespace, op.namespace_prefix)
                 /\ IsOp(i, "ListNamespacesOp") =>
                        /\ r.tag = "list"
                        /\ Len(r.elems) <= op.limit
                        /\ \A j \in 1..Len(r.elems) : Len(r.elems[j]) >= 0

\* A returned batch of two operations, one of them a Search without candidates.
C5_Witness ==
    /\ Returned
    /\ Len(last.ops) = 2
    /\ \E i \in OpIndices :
          /\ IsOp(i, "SearchOp")
          /\ last.results[i] = List(<< >>)
          /\ \E j \in OpIndices : IsOp(j, "PutOp")

(***************************************************************************)
(* C6. In every state of the store between the steps of sync batches and   *)
(* of async batches interleaved at their awaits, each key with a vector    *)
(* entry has a document.                                                   *)
(***************************************************************************)
C6_VectorsHaveDocuments ==
    \A nk \in NsKeys : inmem_store[nk] # << >> => DocAt(_data, nk[1], nk[2]) # None

\* An abatch returns after the documents of the store changed while it was
\* suspended (another batch ran in between); the store holds vectors, and a key
\* without any.
C6_Witness ==
    /\ Returned
    /\ last.mode = "async"
    /\ Docs(last.w_data) # Docs(last.pre_data)
    /\ \E e \in SeqToSet(last.put_ops) : e.v.value = None
    /\ \E nk \in NsKeys : inmem_store[nk] # << >>

(***************************************************************************)
(* C7. Overwriting purges the earlier vector entries: after a returned     *)
(* batch that puts a non-null value at a key that had vector entries, the  *)
(* vector entries of the key are exactly those of the texts extracted from *)
(* the new value.                                                          *)
(***************************************************************************)
ExpectedVectors(op) ==
    IF embedding_config = None THEN {}
    ELSE LET pairs == OpTexts(embedding_config, op)
         IN {[k |-> pairs[i].dest[3], v |-> Embed(pairs[i].text)] : i \in 1..Len(pairs)}

C7_OverwritePurges ==
    Returned =>
        \A e \in SeqToSet(last.put_ops) :
            (e.v.value # None /\ last.w_vecs[e.k] # << >>) =>
                SeqToSet(inmem_store[e.k]) = ExpectedVectors(e.v)

(***************************************************************************)
(* C8. Identical text fans out: when fragments of one batch have the same  *)
(* text and the embedding capability returns one vector per text it is     *)
(* given, the batch returns, and each destination of each text holds the   *)
(* embedding of that text.                                                 *)
(***************************************************************************)
C8_IdenticalTextFansOut ==
    LET to_embed == _extract_texts(embedding_config, last.put_ops)
    IN (/\ last.ev \in {"return", "raise"}
        /\ last.dout = "ok"
        /\ \E e \in SeqToSet(to_embed) : Len(e.v) > 1)
       => /\ Returned
          /\ \A e \in SeqToSet(to_embed) :
                \A j \in 1..Len(e.v) :
                    DictGet(inmem_store[<<e.v[j][1], e.v[j][2]>>], e.v[j][3]) = Embed(e.k)

(***************************************************************************)
(* C9. A batch that raises applies none of its writes: a step that raises  *)
(* (an operation of an unknown type, a failed or cancelled embedding call, *)
(* a vector count that does not match) and a step that suspends at an      *)
(* embedding call leave the documents and the vector index as they were    *)
(* before the step; a batch writes only in the step in which it returns.   *)
(***************************************************************************)
C9_FailedBatchWritesNothing ==
    last.ev \in {"raise", "suspend"} =>
        /\ Docs(_data) = Docs(last.w_data)
        /\ inmem_store = last.w_vecs
        /\ last.mode = "sync" =>
              Docs(_data) = Docs(last.pre_data) /\ inmem_store = last.pre_vecs

\* An abatch with Puts raises on the vector count after its embedding call
\* returned one vector too few, on a store that holds documents.
C9_Witness ==
    /\ last.ev = "raise"
    /\ last.cause = "count"
    /\ last.dout = "short"
    /\ last.mode = "async"
    /\ Docs(_data) # {}
    /\ \E e \in SeqToSet(last.put_ops) : DocAt(_data, e.k[1], e.k[2]) # ItemOrNone(e.k[1], e.k[2], e.v.value)

(***************************************************************************)
(* C10. Similarity ranking: a Search with a query that returns has at most *)
(* `limit` results, of pairwise distinct (namespace, key), in              *)
(* non-increasing order of score; the score of each is the maximum, over   *)
(* the vectors stored for its document, of the cosine similarity to the    *)
(* embedding of the query; and the results are the positions               *)
(* [offset, offset + limit) of the candidate documents in the order of     *)
(* that maximum.                                                           *)
(***************************************************************************)
\* s1 >= s2 on scores; never with nan.
ScoreGeq(s1, s2) == s1 # NaN /\ s2 # NaN /\ s1.n * s2.d >= s2.n * s1.d

\* The similarities of the vectors stored at nk to the embedding of the query.
Similarities(query, nk) ==
    SeqToSet(ScalarSimilarity(Embed(query), DictValues(last.w_vecs[nk])))

\* score is the maximum similarity of the document at nk.
IsMaxSimilarity(score, query, nk) ==
    /\ \E s \in Similarities(query, nk) : ScoreGeq(score, s) /\ ScoreGeq(s, score)
    /\ \A s \in Similarities(query, nk) : ScoreGeq(score, s)

\* The documents under the prefix that have vectors.
RankCandidates(op) ==
    {nk \in NsKeys : /\ DocAt(last.w_data, nk[1], nk[2]) # None
                     /\ NsHasPrefix(nk[1], op.namespace_prefix)
                     /\ last.w_vecs[nk] # << >>}

C10_SimilarityRanking ==
    (/\ Returned
     /\ Len(last.ops) = 1
     /\ IsOp(1, "SearchOp")
     /\ last.ops[1].query # NoQuery)
    => LET op == last.ops[1]
           res == last.results[1].elems
           keyOf(j) == <<res[j].namespace, res[j].key>>
           resKeys == {keyOf(j) : j \in 1..Len(res)}
           cands == RankCandidates(op)
           others == cands \ resKeys
           size == Cardinality(cands) - op.offset
       IN /\ Len(res) <= op.limit
          /\ \A i, j \in 1..Len(res) : i # j => keyOf(i) # keyOf(j)
          /\ \A j \in 1..(Len(res) - 1) : ScoreGeq(res[j].score, res[j + 1].score)
          /\ \A j \in 1..Len(res) :
                /\ keyOf(j) \in cands
                /\ res[j].value = DocAt(last.w_data, keyOf(j)[1], keyOf(j)[2]).value
                /\ IsMaxSimilarity(res[j].score, op.query, keyOf(j))
          /\ Len(res) = (IF size < 0 THEN 0 ELSE IF size > op.limit THEN op.limit ELSE size)
          /\ res # << >> =>
                \E before \in SUBSET others :
                    /\ Cardinality(before) = op.offset
                    /\ \A nk \in before :
                          \E s \in Similarities(op.query, nk) : ScoreGeq(s, res[1].score)
                    /\ \A nk \in others \ before :
                          \A s \in Similarities(op.query, nk) :
                              ScoreGeq(res[Len(res)].score, s)

(***************************************************************************)
(* C11. ListNamespaces output: the result of a ListNamespaces whose        *)
(* conditions are prefix or suffix conditions is the window                *)
(* [offset, offset + limit) of the ascending, duplicate-free list of the   *)
(* namespaces of the store that satisfy every condition, each cut to its   *)
(* max_depth leading segments when max_depth is given (the duplicates the  *)
(* cut makes are removed before the window is taken). The call leaves the  *)
(* store as it is, so the same call on the same store gives the same list. *)
(***************************************************************************)
\* The condition holds on the namespace, by positions.
RefMatch(cond, ns) ==
    /\ Len(ns) >= Len(cond.path)
    /\ \A i \in 1..Len(cond.path) :
          \/ cond.path[i] = "*"
          \/ /\ cond.match_type = "prefix"
             /\ ns[i] = cond.path[i]
          \/ /\ cond.match_type = "suffix"
             /\ ns[Len(ns) - Len(cond.path) + i] = cond.path[i]

\* x is before y in the lexicographic order of segment sequences.
LexLess(x, y) ==
    \E i \in 1..(Len(y)) :
        /\ \A j \in 1..(i - 1) : j <= Len(x) /\ x[j] = y[j]
        /\ \/ Len(x) = i - 1
           \/ Len(x) >= i /\ SegOrd(x[i]) < SegOrd(y[i])

\* The namespaces the listing is about, cut to max_depth.
ListedSet(d, op) ==
    LET matching == {ns \in SeqToSet(DictKeys(d)) :
                        \A c \in SeqToSet(op.match_conditions) : RefMatch(c, ns)}
    IN IF op.max_depth = NoDepth THEN matching
       ELSE {IF Len(ns) <= op.max_depth THEN ns ELSE SubSeq(ns, 1, op.max_depth) :
                ns \in matching}

\* x is at position n (from 0) of the ascending list of T.
RankIs(T, x, n) == x \in T /\ Cardinality({y \in T : LexLess(y, x)}) = n

KnownConditions(op) ==
    \A c \in SeqToSet(op.match_conditions) : c.match_type \in {"prefix", "suffix"}

IsListCall ==
    /\ last.ev \in {"return", "raise"}
    /\ Len(last.ops) = 1
    /\ IsOp(1, "ListNamespacesOp")

C11_ListNamespacesOutput ==
    (IsListCall /\ KnownConditions(last.ops[1])) =>
        LET op == last.ops[1]
            T == ListedSet(last.pre_data, op)
            size == Cardinality(T) - op.offset
            n == IF size < 0 THEN 0 ELSE IF size > op.limit THEN op.limit ELSE size
        IN /\ Returned
           /\ _data = last.pre_data
           /\ last.results[1].tag = "list"
           /\ Len(last.results[1].elems) = n
           /\ \A i \in 1..n : RankIs(T, last.results[1].elems[i], op.offset + i - 1)

\* A listing with a condition and a max_depth that makes duplicates, from offset 1,
\* on a store whose namespaces were not inserted in ascending order; it returns a
\* namespace.
C11_Witness ==
    /\ IsListCall
    /\ Returned
    /\ last.ops[1].match_conditions # << >>
    /\ last.ops[1].max_depth # NoDepth
    /\ last.ops[1].offset = 1
    /\ Cardinality(ListedSet(last.pre_data, last.ops[1])) <
          Cardinality(ListedSet(last.pre_data, [last.ops[1] EXCEPT !.max_depth = NoDepth]))
    /\ \E i, j \in 1..Len(last.pre_data) :
          i < j /\ LexLess(last.pre_data[j].k, last.pre_data[i].k)
    /\ last.results[1].elems # << >>

(***************************************************************************)
(* C12. Namespace matching: with one prefix condition a namespace is       *)
(* listed iff it has at least as many segments as the path and each path   *)
(* segment that is not "*" equals the namespace segment at the same        *)
(* position from the start; with one suffix condition, at the same         *)
(* position from the end. ["a", "*"] as a prefix matches ("a", "b") and    *)
(* ("a", "b", "c"), and neither ("b", "a") nor ("a",).                     *)
(***************************************************************************)
FromStart(path, ns) ==
    /\ Len(ns) >= Len(path)
    /\ \A i \in 1..Len(path) : path[i] # "*" => ns[i] = path[i]

FromEnd(path, ns) ==
    /\ Len(ns) >= Len(path)
    /\ \A i \in 0..(Len(path) - 1) :
          path[Len(path) - i] # "*" => ns[Len(ns) - i] = path[Len(path) - i]

IsMatchCall ==
    /\ IsListCall
    /\ Len(last.ops[1].match_conditions) = 1
    /\ last.ops[1].match_conditions[1].match_type \in {"prefix", "suffix"}
    /\ last.ops[1].max_depth = NoDepth
    /\ last.ops[1].offset = 0
    /\ last.ops[1].limit >= Len(last.pre_data)

C12_NamespaceMatching ==
    /\ IsMatchCall =>
          LET cond == last.ops[1].match_conditions[1]
          IN /\ Returned
             /\ \A ns \in SeqToSet(DictKeys(last.pre_data)) :
                   ns \in SeqToSet(last.results[1].elems) <=>
                       IF cond.match_type = "prefix" THEN FromStart(cond.path, ns)
                       ELSE FromEnd(cond.path, ns)
    /\ \A ns \in ListNamespaceSet :
          _does_match(MatchCondition("prefix", <<"a", "*">>), ns) = "True"
              <=> ns \in {<<"a", "b">>, <<"a", "b", "c">>}

\* A suffix condition with a wildcard on a store with a namespace it matches, a
\* namespace of enough segments it does not match, and a shorter namespace.
C12_Witness ==
    /\ IsMatchCall
    /\ Returned
    /\ LET cond == last.ops[1].match_conditions[1]
           nss == SeqToSet(DictKeys(last.pre_data))
       IN /\ cond.match_type = "suffix"
          /\ "*" \in SeqToSet(cond.path)
          /\ \E ns \in nss : ns \in SeqToSet(last.results[1].elems)
          /\ \E ns \in nss :
                Len(ns) >= Len(cond.path) /\ ns \notin SeqToSet(last.results[1].elems)
          /\ \E ns \in nss : Len(ns) < Len(cond.path)

(***************************************************************************)
(* C13. An unrecognized match_type is a fatal error: a ListNamespaces with *)
(* a condition whose match_type is neither prefix nor suffix raises,       *)
(* whatever the store holds, however long its namespaces are, and wherever *)
(* the condition stands among the others.                                  *)
(***************************************************************************)
C13_UnknownMatchTypeRaises ==
    (IsListCall /\ ~KnownConditions(last.ops[1])) => last.ev = "raise"

(***************************************************************************)
(* C14. An unrecognized filter operator is always surfaced: a Search whose *)
(* filter holds an operator mapping (a mapping with a `$` key) with a key  *)
(* that is none of $eq, $ne, $gt, $gte, $lt, $lte, evaluated against a     *)
(* stored document (a document under the namespace prefix), raises,        *)
(* whatever the other operators of the mapping and the other fields of the *)
(* filter give.                                                            *)
(***************************************************************************)
IsFilterCall ==
    /\ last.ev \in {"return", "raise"}
    /\ Len(last.ops) = 1
    /\ IsOp(1, "SearchOp")
    /\ last.ops[1].query = NoQuery

IsOperatorMapping(fv) ==
    fv.tag = "dict" /\ \E i \in 1..Len(fv.items) : StartsWithDollar(fv.items[i].k)

HasUnknownOperator(filter) ==
    \E i \in 1..Len(filter) :
        /\ IsOperatorMapping(filter[i][2])
        /\ \E j \in 1..Len(filter[i][2].items) : filter[i][2].items[j].k \notin OperatorKeys

\* The documents of d under the prefix, as a set.
DocsUnder(d, prefix) ==
    {it \in Docs(d) :
        /\ Len(it.namespace) >= Len(prefix)
        /\ \A i \in 1..Len(prefix) : it.namespace[i] = prefix[i]}

C14_UnknownOperatorRaises ==
    (/\ IsFilterCall
     /\ HasUnknownOperator(last.ops[1].filter)
     /\ DocsUnder(last.pre_data, last.ops[1].namespace_prefix) # {})
    => last.ev = "raise"

(***************************************************************************)
(* C15. Filter correctness: the results of a Search without a query that   *)
(* returns (limit large enough, offset 0) are exactly the documents whose  *)
(* namespace starts with the segments of namespace_prefix, taken           *)
(* literally, and whose value matches every field of the filter: an        *)
(* operator mapping matches iff all its operators hold ($eq / $ne by       *)
(* equality, $gt / $gte / $lt / $lte by numeric order); a plain mapping    *)
(* iff the stored value is a mapping and every filter key matches, a       *)
(* missing key being compared as null; a sequence iff the stored value is  *)
(* a sequence of the same length that matches element by element; any      *)
(* other value by equality. For the value {"age": 30}, {"age": {"$gte":    *)
(* 18}} matches and {"age": {"$lt": 18}} does not. The search returns when *)
(* its operators are recognized and every document under the prefix has    *)
(* the number the numeric operators compare.                               *)
(***************************************************************************)
RefHolds(operator, stored, v) ==
    CASE operator = "$eq" -> stored = v
      [] operator = "$ne" -> stored # v
      [] operator = "$gt" -> stored.tag = "num" /\ v.tag = "num" /\ stored.n > v.n
      [] operator = "$gte" -> stored.tag = "num" /\ v.tag = "num" /\ stored.n >= v.n
      [] operator = "$lt" -> stored.tag = "num" /\ v.tag = "num" /\ stored.n < v.n
      [] operator = "$lte" -> stored.tag = "num" /\ v.tag = "num" /\ stored.n <= v.n
      [] OTHER -> FALSE

\* The value at key k of a stored mapping, null when it has none.
RefField(stored, k) ==
    IF \E i \in 1..Len(stored.items) : stored.items[i].k = k
    THEN (CHOOSE e \in SeqToSet(stored.items) : e.k = k).v
    ELSE None

RECURSIVE RefMatches(_, _)
RefMatches(stored, fv) ==
    IF IsOperatorMapping(fv)
    THEN \A i \in 1..Len(fv.items) : RefHolds(fv.items[i].k, stored, fv.items[i].v)
    ELSE IF fv.tag = "dict"
    THEN /\ stored.tag = "dict"
         /\ \A i \in 1..Len(fv.items) :
               RefMatches(RefField(stored, fv.items[i].k), fv.items[i].v)
    ELSE IF fv.tag = "list"
    THEN /\ stored.tag = "list"
         /\ Len(stored.elems) = Len(fv.elems)
         /\ \A i \in 1..Len(fv.elems) : RefMatches(stored.elems[i], fv.elems[i])
    ELSE stored = fv

RefCandidates(d, op) ==
    {it \in DocsUnder(d, op.namespace_prefix) :
        \A i \in 1..Len(op.filter) :
            RefMatches(ValueGet(it.value, op.filter[i][1]), op.filter[i][2])}

C15_FilterCorrectness ==
    /\ (IsFilterCall /\ Returned) =>
          LET op == last.ops[1]
              res == last.results[1].elems
          IN /\ {Item(res[j].namespace, res[j].key, res[j].value) : j \in 1..Len(res)}
                    = RefCandidates(last.pre_data, op)
             /\ Len(res) = Cardinality(RefCandidates(last.pre_data, op))
    /\ (IsFilterCall /\ ~HasUnknownOperator(last.ops[1].filter)
          /\ \A it \in DocsUnder(last.pre_data, last.ops[1].namespace_prefix) :
                "age" \in DOMAIN it.value) => Returned
    /\ filter_func(SearchOp(<< >>, <<<<"age", JDict(<<KV("$gte", JNum(18))>>)>>>>,
                            NoQuery, 10, 0),
                   Item(NsA, "k1", [age |-> JNum(30)])) = "True"
    /\ filter_func(SearchOp(<< >>, <<<<"age", JDict(<<KV("$lt", JNum(18))>>)>>>>,
                            NoQuery, 10, 0),
                   Item(NsA, "k1", [age |-> JNum(30)])) = "False"

\* A search under a prefix of one segment, with a filter of an operator mapping of
\* two operators, returns a document and leaves out another document under the
\* prefix.
C15_Witness ==
    /\ IsFilterCall
    /\ Returned
    /\ \E i \in 1..Len(last.ops[1].filter) :
          /\ IsOperatorMapping(last.ops[1].filter[i][2])
          /\ Len(last.ops[1].filter[i][2].items) = 2
    /\ last.results[1].elems # << >>
    /\ Len(last.results[1].elems)
          < Cardinality(DocsUnder(last.pre_data, last.ops[1].namespace_prefix))
    /\ Len(last.ops[1].namespace_prefix) = 1

(***************************************************************************)
(* C16. Candidates without vectors are harmless in a query search: on a    *)
(* store with an embedding capability, a Search with a query whose matched *)
(* candidates include documents without stored vectors does not make the   *)
(* batch raise in the ranking, and when none of its candidates has a       *)
(* stored vector a batch that returns gives it the empty list.             *)
(***************************************************************************)
\* The candidates of the search at position i: those of the store the call
\* started on.
CandidatesOf(i) == _filter_items(last.pre_data, last.pre_vecs, last.ops[i]).value

IsQuerySearch(i) == IsOp(i, "SearchOp") /\ last.ops[i].query # NoQuery

Ended == last.ev \in {"return", "raise"}

C16_VectorlessCandidatesHarmless ==
    Ended =>
        \A i \in OpIndices :
            (/\ IsQuerySearch(i)
             /\ embedding_config # None
             /\ \E c \in SeqToSet(CandidatesOf(i)) : c.vectors = << >>)
            => /\ last.cause \notin {"AxisError", "KeyError"}
               /\ (Returned /\ \A c \in SeqToSet(CandidatesOf(i)) : c.vectors = << >>)
                     => last.results[i] = List(<< >>)

(***************************************************************************)
(* C19. Listed namespaces hold live documents: after any sequence of       *)
(* batches, a ListNamespaces call without conditions and without max_depth *)
(* (limit large enough) returns exactly the namespaces that hold at least  *)
(* one document; a namespace that was only read, or whose documents were   *)
(* all deleted, or where only a missing key was deleted, is not listed.    *)
(***************************************************************************)
LiveNamespaces(d) == {it.namespace : it \in Docs(d)}

C19_ListedNamespacesLive ==
    (/\ Returned
     /\ Len(last.ops) = 1
     /\ IsOp(1, "ListNamespacesOp")
     /\ last.ops[1].match_conditions = << >>
     /\ last.ops[1].max_depth = NoDepth
     /\ last.ops[1].offset = 0
     /\ last.ops[1].limit >= Len(last.pre_data))
    => SeqToSet(last.results[1].elems) = LiveNamespaces(last.pre_data)

(***************************************************************************)
(* C20. A query vector is always available when a query search is ranked:  *)
(* a batch with a Search that carries a query and has a matched candidate  *)
(* never fails on a missing entry of the query-vector map, also on a store *)
(* constructed without an embedding capability.                            *)
(***************************************************************************)
C20_QueryVectorAvailable ==
    Ended =>
        \A i \in OpIndices :
            (IsQuerySearch(i) /\ CandidatesOf(i) # << >>) => last.cause # "KeyError"

(***************************************************************************)
(* C17. The scalar loop and the numpy branch of _cosine_similarity give    *)
(* the same result for every query vector and every list of candidate      *)
(* vectors: no error, one score for each candidate, the same in both, the  *)
(* score 0 when the query vector or the candidate vector has zero norm,    *)
(* and the empty list for the empty list of candidates.                    *)
(***************************************************************************)
SameScores(r1, r2) ==
    /\ ~r1.err
    /\ ~r2.err
    /\ Len(r1.scores) = Len(r2.scores)
    /\ \A i \in 1..Len(r1.scores) :
          ScoreGeq(r1.scores[i], r2.scores[i]) /\ ScoreGeq(r2.scores[i], r1.scores[i])

C17_BackendsAgree ==
    last.ev = "call" =>
        /\ SameScores(last.similarities, _cosine_similarity(~numpy, last.X, last.Y))
        /\ Len(last.similarities.scores) = Len(last.Y)
        /\ \A i \in 1..Len(last.Y) :
              (Dot(last.X, last.X) = 0 \/ Dot(last.Y[i], last.Y[i]) = 0)
                  => last.similarities.scores[i] = Zero

(***************************************************************************)
(* C18. Invocations of the embedding capability in one batch: at most one  *)
(* for the document texts and at most one for the query texts, whatever    *)
(* the number of Puts and of different queries; none for queries when no   *)
(* Search has a query; none for documents when no pending Put has          *)
(* indexable text or no embedding capability is configured.                *)
(***************************************************************************)
RECURSIVE Total(_, _)
\* The sum of the counts f[x], x in S.
Total(f, S) ==
    IF S = {} THEN 0 ELSE LET x == CHOOSE y \in S : TRUE IN f[x] + Total(f, S \ {x})

BatchQueries == {last.ops[i].query : i \in {j \in OpIndices : IsQuerySearch(j)}}

\* The puts the batch applies that have text to embed.
HasIndexablePut ==
    \E e \in SeqToSet(last.put_ops) :
        /\ e.v.value # None
        /\ e.v.index # FALSE
        /\ \E f \in {"a", "b"} : e.v.value[f] # << >>

GatewayRest ==
    /\ last.embed_documents <= 1
    /\ BatchQueries = {} => DOMAIN last.embed_query = {}
    /\ (~HasIndexablePut \/ embedding_config = None) => last.embed_documents = 0

====
